---- MODULE Spec2Model ----
(***************************************************************************)
(* Schedule-lookup repository layer of infobus: the relational and the     *)
(* triple-store backend, the Redis cache provider, the cache-aside         *)
(* decorator and the factory that composes them (src/storage).             *)
(*                                                                         *)
(* Concurrent requests are worker processes; one request is split at its   *)
(* blocking I/O points (cache.get, the wrapped repository call,            *)
(* cache.set), which is where requests interleave.                         *)
(***************************************************************************)
EXTENDS Integers, Sequences, FiniteSets, TLC

VARIABLES
    settings,    \* FUSEKI_ENABLED and FUSEKI_ENDPOINT of django.conf.settings
    repo,        \* the repository the requests are served by
    stoptimes,   \* relational store: StopTime rows
    triples,     \* triple store: ex:Departure resources
    redis,       \* key-value store: key -> entry with expiry
    call,        \* per worker: the request it serves and its position
    started,     \* number of requests begun so far
    last,        \* the most recently completed request
    seeded,      \* number of writes to the store by others than the decorator
    faults,      \* number of requests that have met a failure
    api          \* the HTTP views: configuration, records, last request and response

vars == <<settings, repo, stoptimes, triples, redis, call, started, last, seeded, faults,
          api>>

-----------------------------------------------------------------------------
(* Bounds of the model *)

\* workers serving requests concurrently
NumWorkers == 2
\* requests begun in one behaviour
MaxCalls == 3
\* requests that meet failures of the store or a backend in one behaviour
MaxFaults == 1
\* largest limit a request asks for
MaxLimit == 2
\* writes to the key-value store by a party other than the decorator
MaxSeeds == 1
\* ttl_seconds the decorator is constructed with
TtlSeconds == 2
\* requests one client sends to one public endpoint within a minute
MaxRequests == 3
\* requests one client sends to the schedule endpoint in one behaviour
MaxViewCalls == 2

-----------------------------------------------------------------------------
(* Python values. Every value carries its type, so that None, a str, an    *)
(* int, a list and a dict are distinct and comparable.                     *)

None == [ty |-> "NoneType"]
PyStr(s) == [ty |-> "str", v |-> s]
PyInt(n) == [ty |-> "int", v |-> n]
PyList(xs) == [ty |-> "list", v |-> xs]
PyDict(f) == [ty |-> "dict", v |-> f]

\* an outcome of a Python call: a returned value or a raised exception
Return(x) == [kind |-> "return", value |-> x]
Raise(e) == [kind |-> "raise", err |-> e]

\* datetime.time and datetime.date
Time(h, m, s, us) == [hour |-> h, minute |-> m, second |-> s, microsecond |-> us]
Date(y, m, d) == [year |-> y, month |-> m, day |-> d]

\* datetime.time.__le__: lexicographic on (hour, minute, second, microsecond)
TimeLe(a, b) ==
    \/ a.hour < b.hour
    \/ a.hour = b.hour /\ a.minute < b.minute
    \/ a.hour = b.hour /\ a.minute = b.minute /\ a.second < b.second
    \/ a.hour = b.hour /\ a.minute = b.minute /\ a.second = b.second
       /\ a.microsecond <= b.microsecond

Pad2(n) == IF n < 10 THEN "0" \o ToString(n) ELSE ToString(n)

\* time.strftime("%H:%M:%S"): the microsecond field is not printed
StrftimeHMS(t) == Pad2(t.hour) \o ":" \o Pad2(t.minute) \o ":" \o Pad2(t.second)

\* a time printed without padding its fields to two digits
StrftimeKeyUnpadded(t) == ToString(t.hour) \o ToString(t.minute) \o ToString(t.second)

\* time.strftime("%H%M%S")
StrftimeKey(t) == Pad2(t.hour) \o Pad2(t.minute) \o Pad2(t.second)

\* date.isoformat(): YYYY-MM-DD (years of the model have four digits)
IsoFormat(d) == ToString(d.year) \o "-" \o Pad2(d.month) \o "-" \o Pad2(d.day)

-----------------------------------------------------------------------------
(* JSON. A text is either a well-formed JSON document, held as its syntax  *)
(* tree, or a string that is no JSON at all (the empty string included).   *)

JNull == [j |-> "null"]
JNum(n) == [j |-> "number", n |-> n]
JStr(s) == [j |-> "string", s |-> s]
JArr(xs) == [j |-> "array", items |-> xs]
JObj(f) == [j |-> "object", members |-> f]

JsonText(doc) == [wf |-> TRUE, doc |-> doc]
RawText(s) == [wf |-> FALSE, s |-> s]
EmptyText == RawText("")

RECURSIVE ToJson(_)
ToJson(x) ==
    CASE x.ty = "NoneType" -> JNull
      [] x.ty = "int" -> JNum(x.v)
      [] x.ty = "str" -> JStr(x.v)
      [] x.ty = "list" -> JArr([i \in DOMAIN x.v |-> ToJson(x.v[i])])
      [] x.ty = "dict" -> JObj([k \in DOMAIN x.v |-> ToJson(x.v[k])])

RECURSIVE FromJson(_)
FromJson(d) ==
    CASE d.j = "null" -> None
      [] d.j = "number" -> PyInt(d.n)
      [] d.j = "string" -> PyStr(d.s)
      [] d.j = "array" -> PyList([i \in DOMAIN d.items |-> FromJson(d.items[i])])
      [] d.j = "object" -> PyDict([k \in DOMAIN d.members |-> FromJson(d.members[k])])

\* json.dumps(x)
Dumps(x) == JsonText(ToJson(x))

\* json.loads(text): the decoded value, or JSONDecodeError
Loads(text) == IF text.wf THEN Return(FromJson(text.doc)) ELSE Raise("JSONDecodeError")

\* truth value of what cache.get returned: None and "" are false
Truthy(cached) == cached # None /\ cached # EmptyText

-----------------------------------------------------------------------------
(* Queries and the cache key *)

Query(feed_id, stop_id, service_date, from_time, limit) ==
    [feed_id |-> feed_id, stop_id |-> stop_id, service_date |-> service_date,
     from_time |-> from_time, limit |-> limit]

\* CachedScheduleRepository._key
Key(q) ==
    "schedule:next_departures:feed=" \o q.feed_id \o ":stop=" \o q.stop_id
    \o ":date=" \o IsoFormat(q.service_date)
    \o ":time=" \o StrftimeKey(q.from_time)
    \o ":limit=" \o ToString(q.limit) \o ":v1"

FeedIds == {"TEST"}
StopIds == {"S1"}
ServiceDates == {Date(2099, 1, 1)}
FromTimes == {Time(8, 6, 0, 0), Time(8, 6, 0, 500000)}
\* the view admits limits 1..100; the requests of the model ask for the
\* largest one of the model
Limits == {MaxLimit}

\* the requests the API view can pass on
Queries ==
    {Query(f, s, d, t, n) : f \in FeedIds, s \in StopIds, d \in ServiceDates,
                            t \in FromTimes, n \in Limits}

Keys == {Key(q) : q \in Queries}

-----------------------------------------------------------------------------
(* The key-value store and the cache providers *)

\* a key never set
NoEntry == [present |-> FALSE, by |-> "nobody", age |-> 0, hits |-> 0]

\* A key with its value and its remaining time to live in seconds (-1: no
\* expiry). `by`, `age` and `hits` remember who set it, how long ago, and how
\* many requests were answered from it.
Entry(value, ttl, by) ==
    [present |-> TRUE, value |-> value, ttl |-> ttl, by |-> by, age |-> 0, hits |-> 0]

\* ages are counted up to one second past the time to live
Older(age) == IF age <= TtlSeconds THEN age + 1 ELSE age

\* a key one second later in a store that lets no key expire
AgedNoExpiry(e) ==
    IF e.by = "nobody" \/ e.ttl = -1 THEN e ELSE [e EXCEPT !.age = Older(@)]

\* a key one second later: it is gone once its time to live has run out
Aged(e) ==
    IF e.by = "nobody" THEN e
    ELSE IF e.present /\ e.ttl = 1
         THEN [present |-> FALSE, by |-> e.by, age |-> Older(e.age), hits |-> e.hits]
    ELSE IF e.present /\ e.ttl > 1 THEN [e EXCEPT !.ttl = @ - 1, !.age = Older(@)]
    ELSE IF e.present THEN e
    ELSE [e EXCEPT !.age = Older(@)]

\* redis GET
RedisGet(store, key) == IF store[key].present THEN store[key].value ELSE None

\* redis SETEX key ttl value
RedisSetex(store, key, ttl, value) ==
    [store EXCEPT ![key] = Entry(value, ttl, "decorator")]

\* a provider whose get lets the error of the store through
RedisCacheProviderGetRaises(store, key, up) ==
    IF up THEN Return(RedisGet(store, key)) ELSE Raise("ConnectionError")

\* RedisCacheProvider.get; up is whether the store answers this operation
RedisCacheProviderGet(store, key, up) ==
    IF up THEN Return(RedisGet(store, key)) ELSE Return(None)

\* RedisCacheProvider.set
RedisCacheProviderSet(store, key, value, ttl, up) ==
    IF up THEN RedisSetex(store, key, ttl, value) ELSE store

\* CacheProvider.get of the provider class the decorator was given
CacheGet(cls, store, key, up) ==
    IF cls = "RedisCacheProvider" THEN RedisCacheProviderGet(store, key, up)
    ELSE IF cls = "SetRaisingCacheProvider" THEN Return(None)
    ELSE Raise("CacheError")

\* CacheProvider.set: the store afterwards, and whether set raised
CacheSet(cls, store, key, value, ttl, up) ==
    IF cls = "RedisCacheProvider"
    THEN [store |-> RedisCacheProviderSet(store, key, value, ttl, up), raised |-> FALSE]
    ELSE [store |-> store, raised |-> TRUE]

-----------------------------------------------------------------------------
(* The relational store (gtfs.models StopTime, Trip, Route) *)

StopTime(trip_id, stop_id, arrival_time, departure_time, fk) ==
    [feed |-> "TEST", trip_id |-> trip_id, stop_id |-> stop_id,
     arrival_time |-> arrival_time, departure_time |-> departure_time, _trip |-> fk]

Trip(trip_id, route_id, trip_headsign, direction_id) ==
    [feed |-> "TEST", trip_id |-> trip_id, route_id |-> route_id,
     trip_headsign |-> trip_headsign, direction_id |-> direction_id]

Route(route_id, route_short_name, route_long_name) ==
    [feed |-> "TEST", route_id |-> route_id,
     route_short_name |-> route_short_name, route_long_name |-> route_long_name]

\* T1 has trip and route, T2 a trip whose route is not stored, T3 and T4 no trip
Trips ==
    {Trip("T1", PyStr("R1"), PyStr("Centro"), PyInt(0)),
     Trip("T2", PyStr("R9"), None, None)}

Routes == {Route("R1", PyStr("R1"), PyStr("Ruta 1"))}

\* rows a feed import can leave at stop S1: stored times are whole seconds
StopTimeRows ==
    {StopTime("T1", "S1", Time(8, 5, 0, 0), Time(8, 6, 0, 0), PyStr("T1")),
     StopTime("T2", "S1", None, Time(8, 7, 0, 0), None),
     StopTime("T3", "S1", Time(8, 7, 0, 0), Time(8, 7, 0, 0), None),
     StopTime("T4", "S1", Time(8, 5, 0, 0), None, None)}

\* the sequences that list every element of S once
Listings(S) ==
    {f \in [1..Cardinality(S) -> S] :
        \A i, j \in 1..Cardinality(S) : i # j => f[i] # f[j]}

\* .filter(feed__feed_id=, stop_id=, departure_time__isnull=False, departure_time__gte=)
PgFilter(rows, feed_id, stop_id, from_time) ==
    {st \in rows :
        /\ st.feed = feed_id
        /\ st.stop_id = stop_id
        /\ st.departure_time # None
        /\ TimeLe(from_time, st.departure_time)}

\* a queryset without order_by: the rows in any order
PgUnordered(S) == Listings(S)

\* .order_by("departure_time"): every row order the database may answer with;
\* rows of equal departure_time come in any order
PgOrderBy(S) ==
    {f \in Listings(S) :
        \A i, j \in DOMAIN f : i < j => TimeLe(f[i].departure_time, f[j].departure_time)}

\* a queryset that is not sliced
PgNoSlice(f, limit) == f

\* qs[:limit]
PgSlice(f, limit) == SubSeq(f, 1, IF limit < Len(f) THEN limit ELSE Len(f))

\* a statement that leaves out the stop-times of days without service
PgQuerySetsOfServiceDay(rows, q) ==
    IF q.service_date \in ServiceDates
    THEN {PgSlice(f, q.limit) :
             f \in PgOrderBy(PgFilter(rows, q.feed_id, q.stop_id, q.from_time))}
    ELSE {<<>>}

\* the querysets the statement of lines 28-38 can evaluate to
PgQuerySets(rows, q) ==
    {PgSlice(f, q.limit) : f \in PgOrderBy(PgFilter(rows, q.feed_id, q.stop_id, q.from_time))}

\* getattr(st, "_trip", None), else Trip.objects.filter(feed=, trip_id=).first()
PgTrip(st) ==
    LET id == IF st._trip # None THEN st._trip.v ELSE st.trip_id
        found == {t \in Trips : t.feed = st.feed /\ t.trip_id = id}
    IN  IF found = {} THEN None ELSE CHOOSE t \in found : TRUE

\* Route.objects.filter(feed=, route_id=).only(...).first()
PgRoute(st, route_id) ==
    LET found == {r \in Routes : r.feed = st.feed /\ PyStr(r.route_id) = route_id}
    IN  IF found = {} THEN None ELSE CHOOSE r \in found : TRUE

\* a Departure that leaves route_id out when the trip is not found
PgDepartureNoRouteId(st) ==
    LET trip == PgTrip(st)
    IN  IF trip = None
        THEN PyDict(
               [route_short_name |-> None, route_long_name |-> None,
                trip_id |-> PyStr(st.trip_id), stop_id |-> PyStr(st.stop_id),
                headsign |-> None, direction_id |-> None,
                arrival_time |-> IF st.arrival_time # None
                                 THEN PyStr(StrftimeHMS(st.arrival_time)) ELSE None,
                departure_time |-> IF st.departure_time # None
                                   THEN PyStr(StrftimeHMS(st.departure_time)) ELSE None])
        ELSE PyDict(
               [route_id |-> trip.route_id,
                route_short_name |-> None, route_long_name |-> None,
                trip_id |-> PyStr(st.trip_id), stop_id |-> PyStr(st.stop_id),
                headsign |-> trip.trip_headsign, direction_id |-> trip.direction_id,
                arrival_time |-> IF st.arrival_time # None
                                 THEN PyStr(StrftimeHMS(st.arrival_time)) ELSE None,
                departure_time |-> IF st.departure_time # None
                                   THEN PyStr(StrftimeHMS(st.departure_time)) ELSE None])

\* the Departure dict built from one StopTime row (lines 43-70)
PgDeparture(st) ==
    LET trip == PgTrip(st)
        route_id_val == IF trip # None THEN trip.route_id ELSE PyStr("")
        route == IF route_id_val # None /\ route_id_val # PyStr("")
                 THEN PgRoute(st, route_id_val) ELSE None
    IN  PyDict(
          [route_id |-> route_id_val,
           route_short_name |-> IF route # None THEN route.route_short_name ELSE None,
           route_long_name |-> IF route # None THEN route.route_long_name ELSE None,
           trip_id |-> PyStr(st.trip_id),
           stop_id |-> PyStr(st.stop_id),
           headsign |-> IF trip # None THEN trip.trip_headsign ELSE None,
           direction_id |-> IF trip # None THEN trip.direction_id ELSE None,
           arrival_time |-> IF st.arrival_time # None
                            THEN PyStr(StrftimeHMS(st.arrival_time)) ELSE None,
           departure_time |-> IF st.departure_time # None
                              THEN PyStr(StrftimeHMS(st.departure_time)) ELSE None])

\* a backend that takes a stop-time without trip or route record for an error
PostgresGetNextDeparturesStrict(rows, q, up) ==
    IF up
    THEN {IF \E i \in DOMAIN qs :
                \/ PgTrip(qs[i]) = None
                \/ PgRoute(qs[i], PgTrip(qs[i]).route_id) = None
          THEN Raise("DoesNotExist")
          ELSE Return(PyList([i \in DOMAIN qs |-> PgDeparture(qs[i])])) :
             qs \in PgQuerySets(rows, q)}
    ELSE {Raise("OperationalError")}

\* PostgresScheduleRepository.get_next_departures: the outcomes it can have;
\* up is whether the database answers
PostgresGetNextDepartures(rows, q, up) ==
    IF up
    THEN {Return(PyList([i \in DOMAIN qs |-> PgDeparture(qs[i])])) : qs \in PgQuerySets(rows, q)}
    ELSE {Raise("OperationalError")}

-----------------------------------------------------------------------------
(* The triple store and its SPARQL endpoint *)

\* the HH:MM:SS strings of the model, for comparing them
ClockTimes == {Time(8, m, 0, 0) : m \in {0, 5, 6, 7}}

\* position of a string literal in the code point order SPARQL compares
\* xsd:string by; on HH:MM:SS strings it is the order of the times, and the
\* empty string sorts before them all
StrRank(s) ==
    IF \E t \in ClockTimes : StrftimeHMS(t) = s
    THEN LET t == CHOOSE t \in ClockTimes : StrftimeHMS(t) = s
         IN  (t.hour * 60 + t.minute) * 60 + t.second
    ELSE -1

\* ex:Departure resources, each with its properties as string literals. One
\* has the empty string as its ex:trip_id, one as its ex:departure_time, one
\* is of another service date.
DepartureResources ==
    {[feed_id |-> "TEST", stop_id |-> "S1", trip_id |-> "T1",
      arrival_time |-> "08:05:00", departure_time |-> "08:06:00",
      route_id |-> "R1", route_short_name |-> "R1", route_long_name |-> "Ruta 1",
      service_date |-> "2099-01-01"],
     [feed_id |-> "TEST", stop_id |-> "S1", trip_id |-> "T2",
      arrival_time |-> "08:06:00", departure_time |-> "08:07:00"],
     [feed_id |-> "TEST", stop_id |-> "S1", trip_id |-> "",
      arrival_time |-> "08:07:00", departure_time |-> "08:07:00",
      direction_id |-> "1"],
     [feed_id |-> "TEST", stop_id |-> "S1", trip_id |-> "T4",
      arrival_time |-> "08:05:00", departure_time |-> ""],

     [feed_id |-> "TEST", stop_id |-> "S1", trip_id |-> "T5",
      arrival_time |-> "08:06:00", departure_time |-> "08:06:00",
      service_date |-> "2099-01-02"]}

\* the values interpolated into the query text of lines 37-58
SparqlQuery(q) ==
    [feed_id |-> q.feed_id, stop_id |-> q.stop_id,
     time_str |-> StrftimeHMS(q.from_time), date_str |-> IsoFormat(q.service_date),
     limit |-> q.limit]

\* WHERE: the basic graph pattern with its mandatory properties and both FILTERs
SparqlWhere(graph, query) ==
    {d \in graph :
        /\ {"feed_id", "stop_id", "trip_id", "arrival_time", "departure_time"}
               \subseteq DOMAIN d
        /\ d.feed_id = query.feed_id
        /\ d.stop_id = query.stop_id
        /\ StrRank(d.departure_time) >= StrRank(query.time_str)
        /\ ("service_date" \notin DOMAIN d \/ d.service_date = query.date_str)}

\* ORDER BY ?departure
SparqlOrderBy(S) ==
    {f \in Listings(S) :
        \A i, j \in DOMAIN f :
            i < j => StrRank(f[i].departure_time) <= StrRank(f[j].departure_time)}

\* LIMIT n
SparqlLimit(f, n) == SubSeq(f, 1, IF n < Len(f) THEN n ELSE Len(f))

\* SELECT: the variable of each selected property, bound where the resource has it
SparqlVars ==
    [route_id |-> "route_id", route_short_name |-> "route_short_name",
     route_long_name |-> "route_long_name", trip_id |-> "trip_id",
     stop_id |-> "stop_id", headsign |-> "headsign", direction_id |-> "direction_id",
     arrival_time |-> "arrival", departure_time |-> "departure"]

\* one row of application/sparql-results+json
SparqlBinding(d) ==
    LET props == {k \in DOMAIN SparqlVars : k \in DOMAIN d}
        bound == {SparqlVars[k] : k \in props}
        prop(var) == CHOOSE k \in props : SparqlVars[k] = var
    IN  JObj([var \in bound |->
                JObj([type |-> JStr("literal"), value |-> JStr(d[prop(var)])])])

\* the result documents a conforming endpoint can answer the query with
SparqlResults(graph, query) ==
    {JObj([head |-> JObj(<<>>),
           results |-> JObj([bindings |->
               JArr([i \in DOMAIN SparqlLimit(f, query.limit) |-> SparqlBinding(f[i])])])])
        : f \in SparqlOrderBy(SparqlWhere(graph, query))}

HttpResponse(status_code, text) == [status_code |-> status_code, text |-> text]

\* no response at all: requests.post raises
NoResponse == [status_code |-> 0, text |-> EmptyText]

\* what a working endpoint can answer the query with
EndpointAnswers(graph, query) ==
    {HttpResponse(200, JsonText(doc)) : doc \in SparqlResults(graph, query)}

\* what a failing endpoint answers: a server error, a body that is no JSON,
\* JSON that is no result document, or nothing
EndpointFailures ==
    {HttpResponse(500, RawText("<html>Internal Server Error</html>")),
     HttpResponse(200, RawText("<html>")),
     HttpResponse(200, JsonText(JObj(<<>>))),
     HttpResponse(200, JsonText(JArr(<<>>))),
     NoResponse}

-----------------------------------------------------------------------------
(* FusekiScheduleRepository *)

\* dict.get(name, default)
DictGet(d, name, default) == IF name \in DOMAIN d.v THEN d.v[name] ELSE default

\* val(name) of lines 69-71, for a row b whose entries are dicts
Val(b, name) ==
    LET v == DictGet(DictGet(b, name, PyDict(<<>>)), "value", None)
    IN  IF v # PyStr("") THEN v ELSE None

\* x or default
Or(x, default) == IF x # None /\ x # PyStr("") THEN x ELSE default

\* int(s) of a str: the number it spells, or ValueError
IntOf(x) ==
    IF \E n \in 0..9 : ToString(n) = x.v
    THEN Return(PyInt(CHOOSE n \in 0..9 : ToString(n) = x.v))
    ELSE Raise("ValueError")

\* can b.get(name, {}).get("value") be evaluated for every selected variable
RowIsDicts(b) ==
    /\ b.ty = "dict"
    /\ \A k \in DOMAIN b.v : b.v[k].ty = "dict"

\* the Departure dict appended for one row (lines 73-85), or the error raised
FusekiDeparture(b, stop_id) ==
    IF ~RowIsDicts(b) THEN Raise("AttributeError")
    ELSE LET dir == Val(b, "direction_id")
             direction_id == IF dir # None THEN IntOf(dir) ELSE Return(None)
         IN  IF direction_id.kind = "raise" THEN direction_id
             ELSE Return(PyDict(
                    [route_id |-> Or(Val(b, "route_id"), PyStr("")),
                     route_short_name |-> Val(b, "route_short_name"),
                     route_long_name |-> Val(b, "route_long_name"),
                     trip_id |-> Or(Val(b, "trip_id"), PyStr("")),
                     stop_id |-> Or(Val(b, "stop_id"), PyStr(stop_id)),
                     headsign |-> Val(b, "headsign"),
                     direction_id |-> direction_id.value,
                     arrival_time |-> Val(b, "arrival"),
                     departure_time |-> Val(b, "departure")]))

\* the loop taking a result without rows for an error
FusekiRowsNotEmpty(js, stop_id) ==
    IF js.ty # "dict" THEN Raise("AttributeError")
    ELSE LET results == DictGet(js, "results", PyDict(<<>>)) IN
         IF results.ty # "dict" THEN Raise("AttributeError")
         ELSE LET bindings == DictGet(results, "bindings", PyList(<<>>)) IN
              IF bindings.ty # "list" THEN Raise("TypeError")
              ELSE IF bindings.v = <<>> THEN Raise("LookupError")
              ELSE LET rows == [i \in DOMAIN bindings.v |->
                                    FusekiDeparture(bindings.v[i], stop_id)]
                       bad == {i \in DOMAIN rows : rows[i].kind = "raise"}
                   IN  IF bad # {}
                       THEN rows[CHOOSE i \in bad : \A k \in bad : i <= k]
                       ELSE Return(PyList([i \in DOMAIN rows |-> rows[i].value]))

\* the loop of lines 67-86 over js.get("results", {}).get("bindings", [])
FusekiRows(js, stop_id) ==
    IF js.ty # "dict" THEN Raise("AttributeError")
    ELSE LET results == DictGet(js, "results", PyDict(<<>>)) IN
         IF results.ty # "dict" THEN Raise("AttributeError")
         ELSE LET bindings == DictGet(results, "bindings", PyList(<<>>)) IN
              IF bindings.ty # "list" THEN Raise("TypeError")
              ELSE LET rows == [i \in DOMAIN bindings.v |->
                                    FusekiDeparture(bindings.v[i], stop_id)]
                       bad == {i \in DOMAIN rows : rows[i].kind = "raise"}
                   IN  IF bad # {}
                       THEN rows[CHOOSE i \in bad : \A k \in bad : i <= k]
                       ELSE Return(PyList([i \in DOMAIN rows |-> rows[i].value]))

\* resp.raise_for_status(): HTTPError for the 4xx and 5xx codes
RaisesForStatus(resp) == 400 <= resp.status_code /\ resp.status_code < 600

\* FusekiScheduleRepository.get_next_departures, given the endpoint's answer
FusekiGetNextDepartures(resp, q) ==
    IF resp = NoResponse THEN Raise("ConnectionError")
    ELSE IF RaisesForStatus(resp) THEN Raise("HTTPError")
    ELSE LET js == Loads(resp.text) IN
         IF js.kind = "raise" THEN js ELSE FusekiRows(js.value, q.stop_id)

-----------------------------------------------------------------------------
(* CachedScheduleRepository and the factory *)

\* a factory that looks at FUSEKI_ENDPOINT alone
GetScheduleRepositoryByEndpoint(conf, use_cache) ==
    LET base_repo == IF conf.FUSEKI_ENDPOINT # None /\ conf.FUSEKI_ENDPOINT # PyStr("")
                     THEN [class |-> "FusekiScheduleRepository"]
                     ELSE [class |-> "PostgresScheduleRepository"]
    IN  IF use_cache
        THEN [class |-> "CachedScheduleRepository", repo |-> base_repo,
              cache |-> "RedisCacheProvider", ttl |-> TtlSeconds]
        ELSE base_repo

\* get_schedule_repository(use_cache=): the repository it constructs
GetScheduleRepository(conf, use_cache) ==
    LET base_repo == IF conf.FUSEKI_ENABLED /\ conf.FUSEKI_ENDPOINT # None
                        /\ conf.FUSEKI_ENDPOINT # PyStr("")
                     THEN [class |-> "FusekiScheduleRepository"]
                     ELSE [class |-> "PostgresScheduleRepository"]
    IN  IF use_cache
        THEN [class |-> "CachedScheduleRepository", repo |-> base_repo,
              cache |-> "RedisCacheProvider", ttl |-> TtlSeconds]
        ELSE base_repo

\* the wrapped repository, or the repository itself when it is not wrapped
BaseRepo(r) == IF r.class = "CachedScheduleRepository" THEN r.repo ELSE r

\* the lookup without the try around json.loads: a decode error is raised
LookupNoTry(got) ==
    IF got.kind = "raise" THEN [done |-> TRUE, out |-> got]
    ELSE IF Truthy(got.value) THEN [done |-> TRUE, out |-> Loads(got.value)]
    ELSE [done |-> FALSE]

\* the lookup that takes an absent key for an error
LookupMissRaises(got) ==
    IF got.kind = "raise" THEN [done |-> TRUE, out |-> got]
    ELSE IF got.value = None THEN [done |-> TRUE, out |-> Raise("KeyError")]
    ELSE IF Truthy(got.value)
         THEN LET v == Loads(got.value)
              IN  IF v.kind = "return" THEN [done |-> TRUE, out |-> v]
                  ELSE [done |-> FALSE]
         ELSE [done |-> FALSE]

\* the lookup that never answers from the cache
LookupMiss(got) ==
    IF got.kind = "raise" THEN [done |-> TRUE, out |-> got] ELSE [done |-> FALSE]

\* lines 44-50: what cache.get's outcome leads to. A raise of cache.get is not
\* caught; a true value is decoded and returned; anything else is a miss
Lookup(got) ==
    IF got.kind = "raise" THEN [done |-> TRUE, out |-> got]
    ELSE IF Truthy(got.value)
         THEN LET v == Loads(got.value)
              IN  IF v.kind = "return" THEN [done |-> TRUE, out |-> v]
                  ELSE [done |-> FALSE]
         ELSE [done |-> FALSE]

\* a decorator that loses what the wrapped repository returned
AfterRepoLost(repoOut) ==
    IF repoOut.kind = "raise" THEN repoOut ELSE Raise("RuntimeError")

\* a decorator that answers a failing repository with the empty list
AfterRepoMasked(repoOut) ==
    IF repoOut.kind = "raise" THEN Return(PyList(<<>>)) ELSE repoOut

\* lines 52-58: an error of the wrapped repository is not caught
AfterRepo(repoOut) == repoOut

\* a hit that gives the entry its full time to live again
AfterHitRefreshed(store, key) ==
    [store EXCEPT ![key].hits = @ + 1,
                  ![key].ttl = IF @ = -1 THEN @ ELSE TtlSeconds]

\* lines 44-48: a hit reads the key (GET) and writes nothing; the store is
\* as it was, but for the count of the requests answered from the key
AfterHit(store, key) == [store EXCEPT ![key].hits = @ + 1]

\* a decorator that lets an error of cache.set through
AfterSetRaises(result, raised) == IF raised THEN Raise("CacheError") ELSE result

\* lines 59-63: an error of cache.set is passed over and the list returned
AfterSet(result, raised) == result

-----------------------------------------------------------------------------
(* The requests *)

Workers == 1..NumWorkers

NoOutcome == [kind |-> "none"]
NoQuery == [limit |-> 0]

\* A request: where it stands (pc), what it was asked (q), and what it has
\* seen and done so far. `seen` is the key's entry in the store when
\* cache.get was called, `got` what cache.get gave, `resp` the endpoint's
\* answer, `repoOut` the wrapped repository's outcome, `out` the request's
\* outcome; `cacheUp` tells that no store operation of the request failed
\* (`getUp` and `setUp` tell it of cache.get and cache.set), `alone` that no
\* other request was in flight beside it, `age` the seconds since it completed.
Idle ==
    [pc |-> "idle", id |-> 0, q |-> NoQuery, key |-> "", seen |-> NoEntry,
     got |-> NoOutcome, cacheUp |-> TRUE, getUp |-> TRUE, setUp |-> TRUE,
     resp |-> NoResponse, repoCalls |-> 0,
     repoOut |-> NoOutcome, out |-> NoOutcome, alone |-> TRUE, age |-> 0]

Free(w) == call[w].pc = "idle"

\* the worker waits on a store operation that neither answers nor fails
Hung(w) == call[w].pc = "hung"
IsCached == repo.class = "CachedScheduleRepository"
IsRedis == IsCached /\ repo.cache = "RedisCacheProvider"

\* the request has met a failure: of the store, or of the endpoint
Disturbed(c) ==
    \/ ~c.cacheUp
    \/ c.repoCalls > 0 /\ c.resp # NoResponse /\ c.resp \in EndpointFailures

\* a failing operation makes its request one of the disturbed requests of the
\* behaviour, unless it is one already
Fails(failed, disturbed) ==
    /\ (failed /\ ~disturbed) => faults < MaxFaults
    /\ faults' = IF failed /\ ~disturbed THEN faults + 1 ELSE faults

\* a request that another one begins beside is no longer alone
Beside(p) ==
    [w \in Workers |->
        IF w # p /\ ~Free(w) THEN [call[w] EXCEPT !.alone = FALSE] ELSE call[w]]

\* the request c of worker p has completed: the worker is free again
Completes(p, c, others) ==
    /\ call' = [others EXCEPT ![p] = Idle]
    /\ last' = [c EXCEPT !.pc = "done"]

\* the request c of worker p goes on to its next blocking call
GoesOn(p, c, others) ==
    /\ call' = [others EXCEPT ![p] = c]
    /\ last' = last

\* A request arrives and runs up to its first blocking call. Through the
\* decorator that is lines 37-50: the key, cache.get and the return on a hit
\* (GET leaves the key as it is; only the count of its hits goes up).
Start(p, q) ==
    /\ Free(p)
    /\ \A w \in Workers : w < p => ~Free(w)
    /\ started < MaxCalls
    /\ started' = started + 1
    /\ \E up \in BOOLEAN :
         LET key == IF IsCached THEN Key(q) ELSE ""
             got == IF IsCached THEN CacheGet(repo.cache, redis, key, up) ELSE NoOutcome
             lk == IF IsCached THEN Lookup(got) ELSE [done |-> FALSE]
             c == [Idle EXCEPT
                     !.pc = "repo",
                     !.id = started + 1, !.q = q, !.key = key,
                     !.seen = IF IsCached THEN redis[key] ELSE NoEntry,
                     !.got = got,
                     !.cacheUp = up,
                     !.getUp = up,
                     !.out = IF lk.done THEN lk.out ELSE NoOutcome,
                     !.alone = \A w \in Workers : w # p => Free(w)]
         IN  /\ IsRedis \/ up
             /\ Fails(~up, FALSE)
             /\ redis' = IF lk.done /\ lk.out.kind = "return"
                         THEN AfterHit(redis, key) ELSE redis
             /\ IF lk.done THEN Completes(p, c, Beside(p)) ELSE GoesOn(p, c, Beside(p))
    /\ UNCHANGED <<api, settings, repo, stoptimes, triples, seeded>>

\* the outcomes the wrapped (or bare) repository can have, with the endpoint's
\* answer that led to each and whether the backend failed
RepoOutcomes(q) ==
    IF BaseRepo(repo).class = "FusekiScheduleRepository"
    THEN {[resp |-> r, out |-> FusekiGetNextDepartures(r, q), failed |-> FALSE] :
             r \in EndpointAnswers(triples, SparqlQuery(q))}
         \cup {[resp |-> r, out |-> FusekiGetNextDepartures(r, q), failed |-> TRUE] :
             r \in EndpointFailures}
    ELSE {[resp |-> NoResponse, out |-> o, failed |-> FALSE] :
             o \in PostgresGetNextDepartures(stoptimes, q, TRUE)}
         \cup {[resp |-> NoResponse, out |-> o, failed |-> TRUE] :
             o \in PostgresGetNextDepartures(stoptimes, q, FALSE)}

\* The repository is asked (lines 52-58 through the decorator). An error ends
\* the request; a list goes on to cache.set, or is returned by a bare backend.
RepoCall(p) ==
    /\ call[p].pc = "repo"
    /\ \E r \in RepoOutcomes(call[p].q) :
         LET res == IF IsCached THEN AfterRepo(r.out) ELSE r.out
             c == [call[p] EXCEPT
                     !.pc = "set",
                     !.resp = r.resp,
                     !.repoCalls = @ + 1,
                     !.repoOut = r.out,
                     !.out = res]
         IN  /\ Fails(r.failed, Disturbed(call[p]))
             /\ IF res.kind = "raise" \/ ~IsCached
                THEN Completes(p, c, call) ELSE GoesOn(p, c, call)
    /\ UNCHANGED <<api, settings, repo, stoptimes, triples, redis, started, seeded>>

\* Lines 59-63: cache.set of the serialized list, whose failure is ignored,
\* and the return of the list.
Store(p) ==
    /\ call[p].pc = "set"
    /\ \E up \in BOOLEAN :
         LET cs == CacheSet(repo.cache, redis, call[p].key, Dumps(call[p].out.value),
                            repo.ttl, up)
             c == [call[p] EXCEPT !.cacheUp = @ /\ up, !.setUp = up,
                                  !.out = AfterSet(@, cs.raised)]
         IN  /\ IsRedis \/ up
             /\ Fails(~up, Disturbed(call[p]))
             /\ redis' = cs.store
             /\ Completes(p, c, call)
    /\ UNCHANGED <<api, settings, repo, stoptimes, triples, started, seeded>>

\* cache.get blocks on a store that neither answers nor fails. The client is
\* built without a timeout (redis_cache.py line 22), so nothing ends the wait.
GetHangs(p, q) ==
    /\ IsRedis
    /\ Free(p)
    /\ \A w \in Workers : w < p => ~Free(w)
    /\ started < MaxCalls
    /\ started' = started + 1
    /\ Fails(TRUE, FALSE)
    /\ LET c == [Idle EXCEPT
                    !.pc = "hung",
                    !.id = started + 1, !.q = q, !.key = Key(q),
                    !.seen = redis[Key(q)],
                    !.cacheUp = FALSE,
                    !.getUp = FALSE,
                    !.alone = \A w \in Workers : w # p => Free(w)]
       IN  GoesOn(p, c, Beside(p))
    /\ UNCHANGED <<api, settings, repo, stoptimes, triples, redis, seeded>>

\* cache.set blocks in the same way: the list is never returned.
SetHangs(p) ==
    /\ IsRedis
    /\ call[p].pc = "set"
    /\ Fails(TRUE, Disturbed(call[p]))
    /\ GoesOn(p, [call[p] EXCEPT !.pc = "hung", !.cacheUp = FALSE, !.setUp = FALSE], call)
    /\ UNCHANGED <<api, settings, repo, stoptimes, triples, redis, started, seeded>>

\* A second passes between requests: keys come closer to their expiry and the
\* last completed request grows older. Requests are short against a second,
\* and time is not counted where it changes nothing any more.
Tick ==
    /\ \A w \in Workers : Free(w) \/ Hung(w)
    /\ redis' = [k \in DOMAIN redis |-> Aged(redis[k])]
    /\ last' = IF last.pc = "idle" THEN last ELSE [last EXCEPT !.age = Older(@)]
    /\ <<redis', last'>> # <<redis, last>>
    /\ UNCHANGED <<api, settings, repo, stoptimes, triples, call, started, seeded, faults>>

\* strings another party can leave under a key of the shared store: the empty
\* string, text that is no JSON, and JSON that is no list of departures
SeedTexts ==
    {EmptyText, RawText("{not json"), JsonText(JNum(42)), JsonText(JStr("T1")),
     JsonText(JObj(<<>>))}

\* Another client of the shared store sets a key, without expiry, before the
\* requests of the behaviour arrive.
Seed(key, text) ==
    /\ IsRedis
    /\ started = 0
    /\ seeded < MaxSeeds
    /\ seeded' = seeded + 1
    /\ redis' = [redis EXCEPT ![key] = Entry(text, -1, "other")]
    /\ UNCHANGED <<api, settings, repo, stoptimes, triples, call, started, last, faults>>

-----------------------------------------------------------------------------
(* The HTTP views (src/api/views.py) and the rate limits                   *)
(* (src/api/rate_limiting.py). One client sends its requests one after     *)
(* the other; a view runs from the request to its response.                *)

\* rest_framework Response(body, status): the status and the body's 'error'
Response(status, error) == [status |-> status, error |-> error]

\* a rate 'n/m' of settings.RATE_LIMITS: n requests per period
Rate(n, per) == [num |-> n, per |-> per]

\* get_rate_limit(rate_key): the configured rate, or the default of the class
GetRateLimit(conf, rate_key) ==
    LET defaults == [public_light |-> Rate(100, "m"), public_medium |-> Rate(60, "m"),
                     public_heavy |-> Rate(30, "m")]
    IN  IF rate_key \in DOMAIN conf.RATE_LIMITS THEN conf.RATE_LIMITS[rate_key]
        ELSE IF rate_key \in DOMAIN defaults THEN defaults[rate_key]
        ELSE Rate(60, "m")

\* rate_limit_error_response()
RateLimitErrorResponse == Response(429, PyStr("Rate limit exceeded"))

\* check_rate_limit(request, group, rate_key), for a client that has sent
\* `count` requests of the group within the period: is_ratelimited counts the
\* request and tells whether the count has passed the rate
CheckRateLimit(conf, count, rate_key) ==
    IF ~conf.RATELIMIT_ENABLE THEN FALSE
    ELSE count + 1 > GetRateLimit(conf, rate_key).num

\* the public endpoints and the class of rate each one is documented with
PublicEndpoints == {"health", "arrivals", "search"}
RateKey(endpoint) ==
    CASE endpoint = "health" -> "public_light"
      [] endpoint = "arrivals" -> "public_medium"
      [] endpoint = "search" -> "public_heavy"

\* request.query_params.get(name): None when the parameter is not given
Param(params, name, default) == IF params[name] = None THEN default ELSE params[name]

\* not x, for None or a str
Not(x) == x = None \/ x = PyStr("")

\* int(x) of an int or of the text of a parameter
PyIntOf(x) ==
    IF x.ty = "int" THEN Return(x)
    ELSE CASE x.v = "0" -> Return(PyInt(0))
           [] x.v = "2" -> Return(PyInt(2))
           [] x.v = "100" -> Return(PyInt(100))
           [] x.v = "101" -> Return(PyInt(101))
           [] OTHER -> Raise("ValueError")

\* datetime.strptime(text, "%Y-%m-%d").date()
StrptimeDate(text) ==
    CASE text = "2099-01-01" -> Return(Date(2099, 1, 1))
      [] OTHER -> Raise("ValueError")

\* len(text.split(":"))
ColonParts(text) ==
    CASE text = "08:06:00" -> 3
      [] text = "08:06" -> 2
      [] OTHER -> 1

\* datetime.strptime(text, fmt).time()
StrptimeTime(text, fmt) ==
    CASE text = "08:06:00" /\ fmt = "%H:%M:%S" -> Return(Time(8, 6, 0, 0))
      [] text = "08:06" /\ fmt = "%H:%M" -> Return(Time(8, 6, 0, 0))
      [] OTHER -> Raise("ValueError")

\* dj_timezone.localdate() and dj_timezone.localtime().time() of the requests
LocalDate == Date(2099, 1, 1)
LocalTime == Time(8, 6, 0, 500000)

\* the Feed and Stop records of the database
Feed(feed_id, is_current, retrieved_at) ==
    [feed_id |-> feed_id, is_current |-> is_current, retrieved_at |-> retrieved_at]
Stop(feed_id, stop_id) == [feed_id |-> feed_id, stop_id |-> stop_id]

\* Feed.objects.filter(is_current=True).latest("retrieved_at")
CurrentFeed(db) ==
    LET current == {f \in db.feeds : f.is_current}
    IN  IF current = {} THEN Raise("DoesNotExist")
        ELSE Return(CHOOSE f \in current :
                        \A g \in current : g.retrieved_at <= f.retrieved_at)

\* a view that answers for the current feed when the feed asked for is unknown
ResolveFeedLenient(params, db) ==
    LET current_feed == CurrentFeed(db)
        feed_id == Param(params, "feed_id", None)
    IN  IF ~Not(feed_id) /\ \E f \in db.feeds : f.feed_id = feed_id.v
        THEN [ok |-> TRUE, feed_id |-> feed_id.v]
        ELSE IF current_feed.kind = "raise" THEN [ok |-> FALSE]
        ELSE [ok |-> TRUE, feed_id |-> current_feed.value.feed_id]

\* lines 72-86 (and 984-998): the feed the request is about
ResolveFeed(params, db) ==
    LET feed_id == Param(params, "feed_id", None)
    IN  IF Not(feed_id)
        THEN LET current_feed == CurrentFeed(db)
             IN  IF current_feed.kind = "raise" THEN [ok |-> FALSE]
                 ELSE [ok |-> TRUE, feed_id |-> current_feed.value.feed_id]
        ELSE IF \E f \in db.feeds : f.feed_id = feed_id.v
             THEN [ok |-> TRUE, feed_id |-> feed_id.v]
             ELSE [ok |-> FALSE]

\* lines 115-120 (and 172-177, 976-981): the limit of the request
ParseLimit(params, default) ==
    LET limit == PyIntOf(Param(params, "limit", PyInt(default)))
    IN  IF limit.kind = "raise"
        THEN [ok |-> FALSE, response |-> Response(400, PyStr("limit must be an integer"))]
        ELSE IF limit.value.v <= 0 \/ limit.value.v > 100
        THEN [ok |-> FALSE,
              response |-> Response(400, PyStr("limit must be between 1 and 100"))]
        ELSE [ok |-> TRUE, limit |-> limit.value.v]

\* ScheduleDeparturesView.get, lines 67-120: the validations, in their order.
\* The outcome is the response that ends the request, or the arguments the
\* repository is called with.
DeparturesArguments(params, db) ==
    LET stop_id == Param(params, "stop_id", None)
        feed == ResolveFeed(params, db)
        date_str == Param(params, "date", None)
        service_date == IF Not(date_str) THEN Return(LocalDate)
                        ELSE StrptimeDate(date_str.v)
        time_str == Param(params, "time", None)
        from_time == IF Not(time_str) THEN Return(LocalTime)
                     ELSE StrptimeTime(time_str.v,
                              IF ColonParts(time_str.v) = 3 THEN "%H:%M:%S" ELSE "%H:%M")
        limit == ParseLimit(params, 10)
    IN  IF Not(stop_id)
        THEN [ok |-> FALSE, response |-> Response(400, PyStr("stop_id is required"))]
        ELSE IF ~feed.ok
        THEN [ok |-> FALSE, response |-> Response(404, PyStr("feed not found"))]
        ELSE IF ~\E s \in db.stops : s.feed_id = feed.feed_id /\ s.stop_id = stop_id.v
        THEN [ok |-> FALSE, response |-> Response(404, PyStr("stop_id not found for feed"))]
        ELSE IF service_date.kind = "raise"
        THEN [ok |-> FALSE,
              response |-> Response(400, PyStr("Invalid date format. Use YYYY-MM-DD"))]
        ELSE IF from_time.kind = "raise"
        THEN [ok |-> FALSE,
              response |-> Response(400, PyStr("Invalid time format. Use HH:MM or HH:MM:SS"))]
        ELSE IF ~limit.ok
        THEN [ok |-> FALSE, response |-> limit.response]
        ELSE [ok |-> TRUE,
              q |-> Query(feed.feed_id, stop_id.v, service_date.value, from_time.value,
                          limit.limit)]

\* the parameters the client sends to /api/schedule/departures/: the
\* requests that differ from ?stop_id=S1 in at most two parameters
DeparturesParams ==
    LET plain == [stop_id |-> PyStr("S1"), feed_id |-> None, date |-> None,
                  time |-> None, limit |-> None]
    IN  {p \in [stop_id : {None, PyStr("S1"), PyStr("NOPE")},
                feed_id : {None, PyStr("TEST"), PyStr("NOPE")},
                date : {None, PyStr("2099-01-01"), PyStr("01/01/2099")},
                time : {None, PyStr("08:06:00"), PyStr("08:06"), PyStr("8h")},
                limit : {None, PyStr("0"), PyStr("2"), PyStr("100"), PyStr("101"),
                         PyStr("abc")}] :
            Cardinality({n \in DOMAIN p : p[n] # plain[n]}) <= 2}

\* the queries that pass the view, and their keys in the store
ViewQueries ==
    {Query(f, s, d, t, n) : f \in FeedIds, s \in StopIds, d \in ServiceDates,
                            t \in FromTimes, n \in {2, 10, 100}}
ViewKeys == {Key(q) : q \in ViewQueries}

\* repo.get_next_departures of line 124, through the decorator from cache.get
\* to the return: the outcome and the store it leaves
GetNextDepartures(q) ==
    LET key == Key(q)
        lk == Lookup(CacheGet(repo.cache, redis, key, TRUE))
    IN  IF lk.done
        THEN {[out |-> lk.out,
               store |-> IF lk.out.kind = "return"
                         THEN AfterHit(redis, key) ELSE redis]}
        ELSE {IF AfterRepo(r.out).kind = "raise"
              THEN [out |-> AfterRepo(r.out), store |-> redis]
              ELSE LET cs == CacheSet(repo.cache, redis, key, Dumps(r.out.value),
                                      repo.ttl, TRUE)
                   IN  [out |-> AfterSet(AfterRepo(r.out), cs.raised),
                        store |-> cs.store] :
                 r \in RepoOutcomes(q)}

\* The views' state: the settings and records they read, the requests of the
\* client to each endpoint within the current minute, and the last request
\* with its response; `args` are the arguments the repository was called
\* with for it and `out` what the view got to answer with.
NoApi ==
    [conf |-> [RATELIMIT_ENABLE |-> FALSE, RATE_LIMITS |-> <<>>, ETAS_API_URL |-> None],
     db |-> [feeds |-> {}, stops |-> {}],
     sent |-> [e \in PublicEndpoints |-> 0],
     endpoint |-> "", request |-> None, response |-> Response(0, None),
     args |-> NoQuery, out |-> NoOutcome]

\* ScheduleDeparturesView.get
ScheduleDeparturesViewGet(params) ==
    /\ started < MaxViewCalls
    /\ started' = started + 1
    /\ LET a == DeparturesArguments(params, api.db)
       IN  IF ~a.ok
           THEN /\ api' = [api EXCEPT !.endpoint = "departures", !.request = params,
                                      !.response = a.response,
                                      !.args = NoQuery, !.out = NoOutcome]
                /\ redis' = redis
           ELSE \E r \in GetNextDepartures(a.q) :
                /\ api' = [api EXCEPT !.endpoint = "departures", !.request = params,
                                      !.response = IF r.out.kind = "return"
                                                   THEN Response(200, None)
                                                   ELSE Response(500, None),
                                      !.args = a.q, !.out = r.out]
                /\ redis' = r.store
    /\ UNCHANGED <<settings, repo, stoptimes, triples, call, last, seeded, faults>>

\* the views' state once the client's request to a public endpoint is
\* answered: the request is one more of the minute
Responded(endpoint, params, response, out) ==
    [api EXCEPT !.sent[endpoint] = @ + 1,
                !.endpoint = endpoint, !.request = params,
                !.response = response, !.out = out]

\* HealthView.get
HealthViewGet ==
    /\ api.sent["health"] < MaxRequests
    /\ api' = Responded("health", None, Response(200, None), Return(PyStr("ok")))
    /\ UNCHANGED <<settings, repo, stoptimes, triples, redis, call, started, last,
                   seeded, faults>>

\* what the ETAs service can answer to requests.get: a list, a dict that
\* wraps one, some other JSON, a status other than 200, or nothing in time
Upstream ==
    {[status |-> 200, json |-> Return(PyList(<<PyStr("eta")>>))],
     [status |-> 200, json |-> Return(PyDict([results |-> PyList(<<PyStr("eta")>>)]))],
     [status |-> 200, json |-> Return(PyInt(42))],
     [status |-> 200, json |-> Raise("JSONDecodeError")],
     [status |-> 500, json |-> Raise("JSONDecodeError")],
     [status |-> 0, json |-> Raise("Timeout")]}

\* ArrivalsView.get, lines 166-207, with the upstream's answer
ArrivalsResponse(params, conf, resp) ==
    LET stop_id == Param(params, "stop_id", None)
        limit == ParseLimit(params, 10)
    IN  IF Not(stop_id)
        THEN [response |-> Response(400, PyStr("stop_id is required")), out |-> NoOutcome]
        ELSE IF ~limit.ok THEN [response |-> limit.response, out |-> NoOutcome]
        ELSE IF Not(conf.ETAS_API_URL)
        THEN [response |-> Response(501, PyStr("ETAs service not configured")),
              out |-> NoOutcome]
        ELSE IF resp.status = 0
        THEN [response |-> Response(502, PyStr("Upstream ETAs call failed")),
              out |-> NoOutcome]
        ELSE IF resp.status # 200
        THEN [response |-> Response(502, PyStr("Failed to fetch ETAs from upstream")),
              out |-> NoOutcome]
        ELSE IF resp.json.kind = "raise"
        THEN [response |-> Response(502, PyStr("Upstream ETAs call failed")),
              out |-> NoOutcome]
        ELSE LET arrivals == resp.json.value
             IN  [response |-> Response(200, None),
                  out |-> Return(IF arrivals.ty = "list" THEN arrivals
                                 ELSE IF arrivals.ty = "dict"
                                      THEN DictGet(arrivals, "results", PyList(<<>>))
                                      ELSE PyList(<<>>))]

ArrivalsParams ==
    [stop_id : {None, PyStr("S1")}, limit : {None, PyStr("0"), PyStr("abc")}]

ArrivalsViewGet(params, resp) ==
    /\ api.sent["arrivals"] < MaxRequests
    /\ LET r == ArrivalsResponse(params, api.conf, resp)
       IN  api' = Responded("arrivals", params, r.response, r.out)
    /\ UNCHANGED <<settings, repo, stoptimes, triples, redis, call, started, last,
                   seeded, faults>>

\* str.strip() and str.lower() of the texts the client sends
Strip(text) == IF text = " " THEN "" ELSE text
Lower(text) == IF text = "STOPS" THEN "stops" ELSE text

\* SearchView.get, lines 967-1023; `found` is the number of stops and routes
\* the two searches of the records give for the query
SearchResponse(params, db, found) ==
    LET query == Strip(Param(params, "q", PyStr("")).v)
        search_type == Lower(Param(params, "type", PyStr("all")).v)
        limit == ParseLimit(params, 20)
        feed == ResolveFeed(params, db)
    IN  IF query = ""
        THEN [response |-> Response(400, PyStr("Query parameter 'q' is required")),
              out |-> NoOutcome]
        ELSE IF search_type \notin {"stops", "routes", "all"}
        THEN [response |-> Response(400, PyStr("type must be 'stops', 'routes', or 'all'")),
              out |-> NoOutcome]
        ELSE IF ~limit.ok THEN [response |-> limit.response, out |-> NoOutcome]
        ELSE IF ~feed.ok
        THEN [response |-> Response(404, PyStr("feed not found")), out |-> NoOutcome]
        ELSE [response |-> Response(200, None),
              out |-> Return(PyInt(IF found < limit.limit THEN found ELSE limit.limit))]

SearchParams ==
    [q : {PyStr(" "), PyStr("test")}, type : {None, PyStr("STOPS"), PyStr("bad")},
     limit : {None, PyStr("101")}, feed_id : {None, PyStr("NOPE")}]

SearchViewGet(params, found) ==
    /\ api.sent["search"] < MaxRequests
    /\ LET r == SearchResponse(params, api.db, found)
       IN  api' = Responded("search", params, r.response, r.out)
    /\ UNCHANGED <<settings, repo, stoptimes, triples, redis, call, started, last,
                   seeded, faults>>

\* A minute passes: the client's requests of the last minute count no more.
Minute ==
    /\ api.sent # [e \in PublicEndpoints |-> 0]
    /\ api' = [api EXCEPT !.sent = [e \in PublicEndpoints |-> 0]]
    /\ UNCHANGED <<settings, repo, stoptimes, triples, redis, call, started, last,
                   seeded, faults>>

-----------------------------------------------------------------------------
(* The specification *)

Endpoints == {None, PyStr("http://fuseki:3030/dataset/sparql")}

\* a cache provider whose get and set always raise, given to the decorator
RaisingCached(conf) ==
    [class |-> "CachedScheduleRepository", repo |-> GetScheduleRepository(conf, FALSE),
     cache |-> "RaisingCacheProvider", ttl |-> TtlSeconds]

\* a cache provider that never has the key and whose set always raises, given
\* to the decorator
SetRaisingCached(conf) ==
    [class |-> "CachedScheduleRepository", repo |-> GetScheduleRepository(conf, FALSE),
     cache |-> "SetRaisingCacheProvider", ttl |-> TtlSeconds]

\* the repository layer after construction
StorageInit ==
    /\ settings \in [FUSEKI_ENABLED : BOOLEAN, FUSEKI_ENDPOINT : Endpoints]
    /\ repo \in {GetScheduleRepository(settings, uc) : uc \in BOOLEAN}
                \cup {RaisingCached(settings), SetRaisingCached(settings)}
    /\ IF BaseRepo(repo).class = "FusekiScheduleRepository"
       THEN stoptimes = {} /\ triples \in {{}, DepartureResources}
       ELSE stoptimes \in {{}, StopTimeRows} /\ triples = {}
    /\ redis = [k \in Keys |-> NoEntry]
    /\ call = [w \in Workers |-> Idle]
    /\ started = 0
    /\ last = Idle
    /\ seeded = 0
    /\ faults = 0

Init == StorageInit /\ api = NoApi

Next ==
    \/ \E p \in Workers, q \in Queries : Start(p, q)
    \/ \E p \in Workers : RepoCall(p)
    \/ \E p \in Workers : Store(p)
    \/ Tick
    \/ \E key \in Keys, text \in SeedTexts : Seed(key, text)

Spec == Init /\ [][Next]_vars

\* The requests through the decorator over the Redis provider, with store
\* operations that may block. A worker that can go on does go on.
HangInit == Init /\ IsRedis /\ settings.FUSEKI_ENDPOINT # None

HangNext ==
    \/ Next
    \/ \E p \in Workers, q \in Queries : GetHangs(p, q)
    \/ \E p \in Workers : SetHangs(p)

HangSpec ==
    /\ HangInit /\ [][HangNext]_vars
    /\ \A p \in Workers : WF_vars(RepoCall(p)) /\ WF_vars(Store(p))

\* the records of the database the views read: a current feed with its stop,
\* or a feed that is not the current one
Databases ==
    {[feeds |-> {Feed("TEST", cur, 1)}, stops |-> {Stop("TEST", "S1")}] :
        cur \in BOOLEAN}

\* the settings of the rate limits, as the tests override them
RateConf ==
    [RATELIMIT_ENABLE : BOOLEAN,
     RATE_LIMITS : {[public_light |-> Rate(2, "m"), public_medium |-> Rate(2, "m"),
                     public_heavy |-> Rate(1, "m")]},
     ETAS_API_URL : {None, PyStr("http://etas:8765/")}]

\* The public endpoints, asked by one client.
RateInit ==
    /\ StorageInit
    /\ repo = GetScheduleRepository(settings, TRUE)
    /\ settings = [FUSEKI_ENABLED |-> FALSE, FUSEKI_ENDPOINT |-> None]
    /\ stoptimes = StopTimeRows
    /\ api \in {[NoApi EXCEPT !.conf = c, !.db = d] : c \in RateConf, d \in Databases}

RateNext ==
    \/ HealthViewGet
    \/ \E params \in ArrivalsParams, resp \in Upstream : ArrivalsViewGet(params, resp)
    \/ \E params \in SearchParams, found \in 0..1 : SearchViewGet(params, found)
    \/ Minute

RateSpec == RateInit /\ [][RateNext]_vars

\* The schedule endpoint over the repository the factory gives it, asked by
\* one client; seconds pass between the requests.
ViewInit ==
    /\ settings \in [FUSEKI_ENABLED : BOOLEAN, FUSEKI_ENDPOINT : Endpoints \ {None}]
    /\ repo = GetScheduleRepository(settings, TRUE)
    /\ IF BaseRepo(repo).class = "FusekiScheduleRepository"
       THEN stoptimes = {} /\ triples = DepartureResources
       ELSE stoptimes = StopTimeRows /\ triples = {}
    /\ redis = [k \in ViewKeys |-> NoEntry]
    /\ call = [w \in Workers |-> Idle]
    /\ started = 0
    /\ last = Idle
    /\ seeded = 0
    /\ faults = 0
    /\ api \in {[NoApi EXCEPT !.db = d] : d \in Databases}

ViewNext ==
    \/ \E params \in DeparturesParams : ScheduleDeparturesViewGet(params)
    \/ Tick

ViewSpec == ViewInit /\ [][ViewNext]_vars

-----------------------------------------------------------------------------
(* Properties of the repository layer *)

\* a request has completed, and it is the most recent one to do so
Done == last.pc = "done"

\* the most recent request returned a list
ReturnedList == Done /\ last.out.kind = "return" /\ last.out.value.ty = "list"

\* the wrapped repository was asked once and its outcome is the request's
FellBack == last.repoCalls = 1 /\ last.out = last.repoOut

\* cache.get of the most recent request gave the string stored under its key
GotStored == IsRedis /\ last.seen.present /\ last.got = Return(last.seen.value)

\* the text is the serialization of a list of dicts
IsListText(text) ==
    /\ text.wf
    /\ text.doc.j = "array"
    /\ \A i \in DOMAIN text.doc.items : text.doc.items[i].j = "object"

\* the time of day an HH:MM:SS string of the model spells
TimeOf(s) == CHOOSE t \in ClockTimes : StrftimeHMS(t) = s

\* the request begun by the step
Begun ==
    IF last'.id = started' THEN last'
    ELSE LET p == CHOOSE w \in Workers : call'[w].id = started' IN call'[p]

\* the step begins a request with the parameters of the most recent completed
\* one, less than ttl_seconds after it, neither meeting a failure of the store
\* nor another request beside the first
RepeatsLast ==
    /\ started' = started + 1
    /\ IsRedis /\ seeded = 0
    /\ ReturnedList /\ last.cacheUp /\ last.alone
    /\ last.age < TtlSeconds
    /\ Begun.q = last.q /\ Begun.cacheUp

\* the request begun by the step is answered from the cache with the list of
\* the most recent completed one
AnsweredAlike == Begun.pc = "done" /\ Begun.repoCalls = 0 /\ Begun.out = last.out

\* C1: with a cache provider whose get and set always raise, the decorator
\* does not raise and returns what the wrapped repository returns.
C1_RaisingProviderTolerated ==
    (Done /\ IsCached /\ repo.cache = "RaisingCacheProvider") => FellBack

\* C2 as stated: of two calls with identical parameters less than ttl_seconds
\* apart, through a working cache, the second returns the first one's list
\* without asking the wrapped repository.
C2_AnyTwoCallsWithinTtl == [][RepeatsLast => AnsweredAlike]_vars

\* C2: when the first of the two calls found no valid entry, asked the wrapped
\* repository and wrote its list, a call with identical parameters begun less
\* than ttl_seconds later returns the identical list without asking the
\* wrapped repository.
C2_SecondCallAfterWrite ==
    [][(RepeatsLast /\ last.repoCalls = 1) => AnsweredAlike]_vars

\* an empty list was written by the decorator and a later request answered
\* from it
C2_Witness ==
    /\ Done /\ IsRedis /\ last.id > 1
    /\ last.repoCalls = 0
    /\ last.out = Return(PyList(<<>>))
    /\ last.seen.by = "decorator"

\* C3: a string under the key that is no serialization of a Departure list
\* only ever gives a miss: the wrapped repository's result is returned, never
\* the cached content.
C3_CorruptEntryIsAMiss ==
    (Done /\ GotStored /\ ~IsListText(last.seen.value)) => FellBack

\* C4: a non-deserializable value under the key raises nothing: the wrapped
\* repository is asked once and its outcome is the request's.
C4_UndecodableFallsBack ==
    (Done /\ GotStored /\ ~last.seen.value.wf) => FellBack

\* text that is no JSON was under the key and the request returned the
\* wrapped repository's list
C4_Witness ==
    /\ Done /\ GotStored
    /\ last.seen.value = RawText("{not json")
    /\ FellBack
    /\ last.out.kind = "return"

\* C5: a request that looks the key up more than ttl_seconds after the
\* decorator wrote it finds no entry and asks the wrapped repository, whatever
\* the number of hits in between.
C5_ExpiredEntryIsGone ==
    /\ \A w \in Workers :
         (~Free(w) /\ ~Hung(w) /\ call[w].seen.by = "decorator"
            /\ call[w].seen.age > TtlSeconds)
            => call[w].got = Return(None)
    /\ (Done /\ IsRedis /\ last.seen.by = "decorator" /\ last.seen.age > TtlSeconds)
            => (last.got = Return(None) /\ last.repoCalls = 1)

\* an entry that had answered a request expired, and the next request asked
\* the wrapped repository again
C5_Witness ==
    /\ Done /\ IsRedis
    /\ last.seen.by = "decorator"
    /\ last.seen.age > TtlSeconds
    /\ last.seen.hits >= 1
    /\ last.repoCalls = 1

\* C6: an error raised by the wrapped repository is the error the decorator
\* raises; it is never turned into a returned list.
C6_BackendErrorPropagates ==
    (Done /\ IsCached /\ last.repoCalls = 1 /\ last.repoOut.kind = "raise")
        => last.out = last.repoOut

\* the wrapped repository raised and the request through the decorator did
C6_Witness ==
    /\ Done /\ IsCached
    /\ last.repoCalls = 1
    /\ last.repoOut.kind = "raise"
    /\ last.out.kind = "raise"

\* C7: the triple-store repository raises for every response that is not a
\* 200 or whose body is no tabular SPARQL JSON result.
C7_BadResponseRaises ==
    (Done /\ BaseRepo(repo).class = "FusekiScheduleRepository"
          /\ last.repoCalls = 1 /\ last.resp \in EndpointFailures)
        => last.repoOut.kind = "raise"

\* C8: with a cache written only by the decorator, every repository of the
\* factory returns a list of at most `limit` entries.
C8_AtMostLimit ==
    (Done /\ seeded = 0 /\ last.out.kind = "return")
        => (last.out.value.ty = "list" /\ Len(last.out.value.v) <= last.q.limit)

\* more rows match than the limit admits and the list has `limit` entries
C8_Witness ==
    /\ ReturnedList /\ seeded = 0
    /\ Cardinality(PgFilter(stoptimes, last.q.feed_id, last.q.stop_id,
                            last.q.from_time)) > last.q.limit
    /\ Len(last.out.value.v) = last.q.limit

\* C9: every departure returned is at or after the from_time of the call.
C9_NotBeforeFromTime ==
    (ReturnedList /\ seeded = 0) =>
        \A i \in DOMAIN last.out.value.v :
            LET d == last.out.value.v[i].v.departure_time
            IN  d # None /\ TimeLe(last.q.from_time, TimeOf(d.v))

\* C10: the departure times of a returned list never decrease, and none is
\* absent.
C10_Ascending ==
    (ReturnedList /\ seeded = 0) =>
        LET ds == last.out.value.v IN
        /\ \A i \in DOMAIN ds : ds[i].v.departure_time # None
        /\ \A i, j \in DOMAIN ds :
             i < j => StrRank(ds[i].v.departure_time.v) <= StrRank(ds[j].v.departure_time.v)

\* a list of two departures at different times was returned
C10_Witness ==
    /\ ReturnedList /\ seeded = 0
    /\ Len(last.out.value.v) = 2
    /\ last.out.value.v[1].v.departure_time # last.out.value.v[2].v.departure_time

\* position of a trip_id in the ascending order of the trip ids of the model
TripRank(id) ==
    LET ids == <<"", "T1", "T2", "T3", "T4", "T5">>
    IN  CHOOSE i \in DOMAIN ids : ids[i] = id

\* C11: departures of equal departure_time come in ascending trip_id order,
\* and the list is fully determined by the stored data and the query.
C11_TiesByTripId ==
    (ReturnedList /\ seeded = 0 /\ last.repoCalls = 1) =>
        LET ds == last.out.value.v IN
        /\ \A i, j \in DOMAIN ds :
             (i < j /\ ds[i].v.departure_time = ds[j].v.departure_time)
                => TripRank(ds[i].v.trip_id.v) < TripRank(ds[j].v.trip_id.v)
        /\ \A r \in RepoOutcomes(last.q) : ~r.failed => r.out = last.repoOut

\* the ex:Departure resource that states the facts of one stop-time row: each
\* stored value as a string literal, absent values as absent properties
AsResource(st) ==
    LET dep == PgDeparture(st).v
        props == [feed_id |-> PyStr(st.feed), stop_id |-> dep.stop_id,
                  trip_id |-> dep.trip_id,
                  arrival_time |-> dep.arrival_time,
                  departure_time |-> dep.departure_time,
                  route_id |-> IF dep.route_id = PyStr("") THEN None ELSE dep.route_id,
                  route_short_name |-> dep.route_short_name,
                  route_long_name |-> dep.route_long_name,
                  headsign |-> dep.headsign,
                  direction_id |-> IF dep.direction_id = None THEN None
                                   ELSE PyStr(ToString(dep.direction_id.v))]
    IN  [k \in {n \in DOMAIN props : props[n] # None} |-> props[k].v]

\* C12: for the same stored facts and the same query the relational backend
\* returns a list the triple-store backend returns as well.
C12_BackendsAgree ==
    (Done /\ BaseRepo(repo).class = "PostgresScheduleRepository"
          /\ last.repoCalls = 1 /\ last.repoOut.kind = "return")
        => last.repoOut \in
              {FusekiGetNextDepartures(r, last.q) :
                  r \in EndpointAnswers({AsResource(st) : st \in stoptimes},
                                        SparqlQuery(last.q))}

\* the step is a cache.get of the Redis provider that fails
GetFails == IsRedis /\ started' = started + 1 /\ ~Begun.getUp

\* the step is a cache.set of the Redis provider, by worker p, that fails
SetFails(p) == IsRedis /\ call[p].pc = "set" /\ call'[p].pc = "idle" /\ ~last'.setUp

\* C13: a failing store operation makes RedisCacheProvider.get return None
\* and RedisCacheProvider.set return without storing; neither raises.
C13_ProviderSwallowsFailures ==
    [][/\ GetFails => (Begun.got = Return(None) /\ redis' = redis)
       /\ \A p \in Workers :
            SetFails(p) => (redis' = redis /\ last'.out = call[p].out
                            /\ last'.out.kind = "return")]_vars

\* cache.get failed while the key was set, and the request went on as after
\* a miss and returned
C13_Witness ==
    /\ Done /\ IsRedis
    /\ ~last.getUp
    /\ last.seen.present
    /\ last.got = Return(None)
    /\ last.out.kind = "return"

\* C14: in a call during which every operation of the Redis provider fails,
\* the decorator asks the wrapped repository exactly once and the call's
\* outcome, list or error, is the wrapped repository's.
C14_UnavailableStoreIsTransparent ==
    (Done /\ IsRedis /\ ~last.getUp /\ (last.repoOut.kind = "return" => ~last.setUp))
        => FellBack

\* the key was set, but neither cache.get nor cache.set reached the store,
\* and the request returned the wrapped repository's list
C14_Witness ==
    /\ Done /\ IsRedis
    /\ ~last.getUp /\ ~last.setUp
    /\ last.seen.present
    /\ FellBack
    /\ last.out.kind = "return"

\* C15: a store operation that neither answers nor fails is given up after a
\* bounded wait, so that every request begun is completed in the end.
C15_HungOperationIsAbandoned ==
    \A p \in Workers : (call[p].pc # "idle") ~> (call[p].pc = "idle")

\* the key format, filled with the five parameters as texts
KeyTemplate(feed_id, stop_id, date, time, limit) ==
    "schedule:next_departures:feed=" \o feed_id \o ":stop=" \o stop_id
    \o ":date=" \o date \o ":time=" \o time \o ":limit=" \o limit \o ":v1"

\* YYYY-MM-DD of the dates and HHMMSS of the times of the model
DateText(d) == CASE d = Date(2099, 1, 1) -> "2099-01-01"
TimeText(t) == CASE t.hour = 8 /\ t.minute = 6 /\ t.second = 0 -> "080600"

\* the requests in flight and the most recent completed one
Requests == {call[w] : w \in {v \in Workers : ~Free(v)}} \cup (IF Done THEN {last} ELSE {})

\* C16: the key of every request through the decorator is the format filled
\* with the request's five parameters, so requests of equal parameters have
\* equal keys.
C16_KeyFormat ==
    IsCached =>
        /\ \A r \in Requests :
             r.key = KeyTemplate(r.q.feed_id, r.q.stop_id, DateText(r.q.service_date),
                                 TimeText(r.q.from_time), ToString(r.q.limit))
        /\ \A r1, r2 \in Requests : r1.q = r2.q => r1.key = r2.key

\* a request with a from_time of half a second past 08:06:00 was served under
\* the key of 080600
C16_Witness ==
    /\ Done /\ IsCached
    /\ last.q.from_time = Time(8, 6, 0, 500000)
    /\ last.key = "schedule:next_departures:feed=TEST:stop=S1:date=2099-01-01:time=080600:limit=2:v1"

\* the settings enable the triple store and name its endpoint
FusekiConfigured == settings.FUSEKI_ENABLED /\ settings.FUSEKI_ENDPOINT \in Endpoints \ {None}

\* the class of the backend the settings call for
ConfiguredBackend ==
    IF FusekiConfigured THEN "FusekiScheduleRepository" ELSE "PostgresScheduleRepository"

\* C17: the factory takes the triple-store backend exactly when FUSEKI_ENABLED
\* is true and FUSEKI_ENDPOINT is set, the relational one otherwise, and wraps
\* it in the decorator with a Redis provider exactly when use_cache is true;
\* a repository of the factory asks no endpoint unless the settings name one.
C17_FactoryChoice ==
    /\ \A use_cache \in BOOLEAN :
         LET r == GetScheduleRepository(settings, use_cache)
         IN  IF use_cache
             THEN /\ r.class = "CachedScheduleRepository"
                  /\ r.cache = "RedisCacheProvider"
                  /\ r.repo = [class |-> ConfiguredBackend]
             ELSE r = [class |-> ConfiguredBackend]
    /\ (IsCached => IsRedis) => BaseRepo(repo).class = ConfiguredBackend
    /\ (Done /\ (IsCached => IsRedis) /\ ~FusekiConfigured) => last.resp = NoResponse

\* the triple store is enabled and named, and a request through the
\* decorator was answered by the endpoint
C17_Witness ==
    /\ Done /\ IsRedis /\ FusekiConfigured
    /\ last.repoCalls = 1
    /\ last.resp.status_code = 200

\* the most recent request asked the triple-store backend, whose endpoint
\* answered the query as a result document
Answered ==
    /\ Done /\ BaseRepo(repo).class = "FusekiScheduleRepository"
    /\ last.repoCalls = 1
    /\ last.resp \in EndpointAnswers(triples, SparqlQuery(last.q))

\* C18: a result row without a trip id is left out: no Departure returned by
\* the triple-store backend has an empty or absent trip_id.
C18_NoEmptyTripId ==
    (Answered /\ last.repoOut.kind = "return") =>
        \A i \in DOMAIN last.repoOut.value.v :
            last.repoOut.value.v[i].v.trip_id \notin {None, PyStr("")}

\* the result document without rows
NoRows == JObj([head |-> JObj(<<>>), results |-> JObj([bindings |-> JArr(<<>>)])])

\* C20: when the endpoint answers 200 with a result of zero rows, the
\* triple-store backend returns the empty list and raises nothing.
C20_NoRowsGiveEmptyList ==
    (Answered /\ last.resp = HttpResponse(200, JsonText(NoRows)))
        => last.repoOut = Return(PyList(<<>>))

\* the endpoint answered for an empty dataset and the request returned the
\* empty list
C20_Witness ==
    /\ Answered /\ triples = {}
    /\ last.resp = HttpResponse(200, JsonText(NoRows))
    /\ last.out = Return(PyList(<<>>))

\* C19: concurrent identical calls are not coalesced, and none of them fails:
\* a call that ran beside another one, with store and backend working,
\* returns a result, and when it saw a miss it asked the wrapped repository
\* itself.
C19_ConcurrentCallsBothServed ==
    (Done /\ IsRedis /\ ~last.alone /\ faults = 0 /\ seeded = 0) =>
        /\ last.out.kind = "return"
        /\ last.got = Return(None) => FellBack

\* two calls with the same parameters both saw a miss and both have asked
\* the wrapped repository
C19_Witness ==
    /\ IsRedis /\ faults = 0 /\ seeded = 0
    /\ \E v, w \in Workers :
         /\ v # w
         /\ call[v].pc = "set" /\ call[w].pc = "set"
         /\ call[v].q = call[w].q
         /\ call[v].got = Return(None) /\ call[w].got = Return(None)
         /\ call[v].repoCalls = 1 /\ call[w].repoCalls = 1

-----------------------------------------------------------------------------
(* Properties of the HTTP views *)

\* the last request went to a public endpoint and is one of the current minute
PublicRequest == api.endpoint \in PublicEndpoints /\ api.sent[api.endpoint] > 0

\* C21: with rate limiting enabled and a rate of N requests a minute for the
\* class of a public endpoint (health, arrivals, search), the first N requests
\* of the client to it within the minute are not answered 429, and the next
\* one is answered 429 with the error 'Rate limit exceeded'.
C21_PublicEndpointsLimited ==
    (PublicRequest /\ api.conf.RATELIMIT_ENABLE) =>
        LET nth == api.sent[api.endpoint]
            rate == GetRateLimit(api.conf, RateKey(api.endpoint))
        IN  /\ nth <= rate.num => api.response.status # 429
            /\ nth = rate.num + 1 =>
                   /\ CheckRateLimit(api.conf, nth - 1, RateKey(api.endpoint))
                   /\ api.response = RateLimitErrorResponse

-----------------------------------------------------------------------------
(* Properties of the repository layer, continued *)

\* the fields of a Departure
DepartureFields ==
    {"route_id", "route_short_name", "route_long_name", "trip_id", "stop_id",
     "headsign", "direction_id", "arrival_time", "departure_time"}

\* the most recent request was answered by the backend, or from an entry the
\* decorator wrote
FromBackendOrOwnEntry ==
    \/ last.repoCalls = 1
    \/ last.repoCalls = 0 /\ last.seen.present /\ last.seen.by = "decorator"

\* the stored data name a route for the trip of the departure
RouteIdStored(d) ==
    IF BaseRepo(repo).class = "PostgresScheduleRepository"
    THEN \E t \in Trips : t.trip_id = d.v.trip_id.v
    ELSE \E r \in triples :
            /\ r.trip_id = d.v.trip_id.v
            /\ "route_id" \in DOMAIN r
            /\ r.route_id # ""

\* C22: every Departure returned by a backend or from a cache hit the decorator
\* wrote carries all nine fields; its route_id is a string, the empty string
\* when the stored data name no route for it, and never absent.
C22_NineFieldsAndRouteId ==
    (ReturnedList /\ FromBackendOrOwnEntry) =>
        \A i \in DOMAIN last.out.value.v :
            LET d == last.out.value.v[i]
            IN  /\ d.ty = "dict"
                /\ DOMAIN d.v = DepartureFields
                /\ d.v.route_id.ty = "str"
                /\ ~RouteIdStored(d) => d.v.route_id = PyStr("")

\* a list with a departure of no known route, written by the decorator, was
\* answered from the cache
C22_Witness ==
    /\ ReturnedList /\ FromBackendOrOwnEntry
    /\ last.repoCalls = 0
    /\ \E i \in DOMAIN last.out.value.v : last.out.value.v[i].v.route_id = PyStr("")

\* the most recent request asked the relational backend
AskedPostgres ==
    Done /\ BaseRepo(repo).class = "PostgresScheduleRepository" /\ last.repoCalls = 1

\* no trip record is stored for the departure; no route record for its trip
NoTripRecord(d) == ~\E t \in Trips : t.trip_id = d.v.trip_id.v
NoRouteRecord(d) ==
    \E t \in Trips : /\ t.trip_id = d.v.trip_id.v
                     /\ ~\E r \in Routes : PyStr(r.route_id) = t.route_id

\* C23: the relational backend does not fail because a matched stop-time has
\* no trip record or its trip no route record: the stop-time yields a
\* Departure all the same, with route_id empty and headsign, direction_id and
\* route names absent when the trip is missing, and with the route names
\* absent when only the route is missing.
C23_MissingTripOrRouteTolerated ==
    AskedPostgres =>
        LET matched == PgFilter(stoptimes, last.q.feed_id, last.q.stop_id, last.q.from_time)
        IN  IF last.repoOut.kind = "raise"
            THEN last.repoOut \in PostgresGetNextDepartures(stoptimes, last.q, FALSE)
            ELSE LET ds == last.repoOut.value.v IN
                 /\ Len(ds) = IF Cardinality(matched) < last.q.limit
                              THEN Cardinality(matched) ELSE last.q.limit
                 /\ \A i \in DOMAIN ds :
                      /\ \E st \in matched : PyStr(st.trip_id) = ds[i].v.trip_id
                      /\ NoTripRecord(ds[i]) =>
                            /\ ds[i].v.route_id = PyStr("")
                            /\ ds[i].v.headsign = None
                            /\ ds[i].v.direction_id = None
                            /\ ds[i].v.route_short_name = None
                            /\ ds[i].v.route_long_name = None
                      /\ NoRouteRecord(ds[i]) =>
                            /\ ds[i].v.route_id # PyStr("")
                            /\ ds[i].v.route_short_name = None
                            /\ ds[i].v.route_long_name = None

\* the relational backend returned a list with a departure of a stop-time
\* without trip record and one of a trip without route record
C23_Witness ==
    /\ AskedPostgres /\ last.repoOut.kind = "return"
    /\ \E i, j \in DOMAIN last.repoOut.value.v :
         /\ NoTripRecord(last.repoOut.value.v[i])
         /\ NoRouteRecord(last.repoOut.value.v[j])

\* service dates a request can name beside the one of the model's requests
OtherDates == {Date(2099, 1, 2), Date(2098, 12, 31)}

\* the query q for another service date
OnDate(q, d) == [q EXCEPT !.service_date = d]

\* C24: the relational backend's result does not depend on service_date: for
\* the same stored data, feed_id, stop_id, from_time and limit it returns the
\* same lists for every service_date.
C24_ServiceDateIgnored ==
    AskedPostgres =>
        \A d \in OtherDates :
            PostgresGetNextDepartures(stoptimes, OnDate(last.q, d), TRUE)
                = PostgresGetNextDepartures(stoptimes, last.q, TRUE)

\* the relational backend returned departures, which it returns for another
\* service date as well
C24_Witness ==
    /\ AskedPostgres /\ last.repoOut.kind = "return"
    /\ Len(last.repoOut.value.v) > 0
    /\ \E d \in OtherDates :
         /\ d # last.q.service_date
         /\ last.repoOut \in PostgresGetNextDepartures(stoptimes, OnDate(last.q, d), TRUE)

\* the most recent request saw a miss, got a list from the wrapped repository
\* and met a failure of cache.set: one the provider absorbed, or one it raised
SetFailedOnMiss ==
    /\ Done /\ IsCached
    /\ last.repoCalls = 1 /\ last.repoOut.kind = "return"
    /\ \/ IsRedis /\ ~last.setUp
       \/ repo.cache = "SetRaisingCacheProvider"

\* C25: on a cache miss a failure of cache.set, absorbed by the provider or
\* raised by it, does not change the outcome: the decorator returns the list
\* the wrapped repository produced and does not raise.
C25_SetFailureIgnored == SetFailedOnMiss => last.out = last.repoOut

\* cache.set raised after the wrapped repository had returned departures
C25_Witness ==
    /\ SetFailedOnMiss
    /\ repo.cache = "SetRaisingCacheProvider"
    /\ Len(last.repoOut.value.v) > 0

\* the parameter of the last request, None when it was not given
Given(name) == api.request[name]

\* the last request to the schedule endpoint fails a validation: stop_id is
\* missing, the feed is unknown (or none is current), the stop does not exist
\* for the feed, date or time cannot be parsed, or limit is no integer of 1..100
InvalidRequest ==
    \/ Given("stop_id") \in {None, PyStr("")}
    \/ Given("feed_id") = None /\ ~\E f \in api.db.feeds : f.is_current
    \/ Given("feed_id") # None
           /\ ~\E f \in api.db.feeds : PyStr(f.feed_id) = Given("feed_id")
    \/ ~\E s \in api.db.stops : PyStr(s.stop_id) = Given("stop_id")
    \/ Given("date") \in {PyStr("01/01/2099")}
    \/ Given("time") \in {PyStr("8h")}
    \/ Given("limit") \in {PyStr("0"), PyStr("101"), PyStr("abc")}

\* C26: ScheduleDeparturesView calls the repository only after every
\* validation has passed: a request that fails one is answered 400 or 404
\* and get_next_departures is not called for it, and every call that reaches
\* the repository has a limit of 1..100.
C26_ValidatedBeforeRepository ==
    api.endpoint = "departures" =>
        /\ InvalidRequest => api.response.status \in {400, 404} /\ api.args = NoQuery
        /\ api.args # NoQuery => api.args.limit >= 1 /\ api.args.limit <= 100

\* a request with limit=101 and nothing else amiss, after a request that went
\* to the repository and filled the store, is answered 400 without a call
C26_Witness ==
    /\ api.endpoint = "departures"
    /\ Given("stop_id") = PyStr("S1") /\ Given("limit") = PyStr("101")
    /\ Given("date") = None /\ Given("time") = None
    /\ api.response.status = 400 /\ api.args = NoQuery
    /\ \E k \in ViewKeys : redis[k].present

\* C27: cache keys do not collide: requests whose (feed_id, stop_id,
\* service_date, from_time, limit) differ in any component have different
\* keys, so that none is answered from an entry written for another query.
C27_KeysDoNotCollide ==
    IsCached =>
        \A r1, r2 \in Requests : r1.q # r2.q => r1.key # r2.key

\* the most recent request was answered from the cache, in a store that only
\* the decorator has written
HitOfOwnStore ==
    /\ Done /\ IsRedis /\ seeded = 0
    /\ last.repoCalls = 0 /\ last.out.kind = "return"

\* C28: with a store that only the decorator writes and that drops an entry
\* ttl_seconds after it was set, every list returned from a cache hit is a
\* list the wrapped repository returned to a call with the same cache key,
\* written no more than ttl_seconds before the hit.
C28_HitIsRecentBackendList ==
    HitOfOwnStore =>
        /\ last.seen.present /\ last.seen.by = "decorator"
        /\ last.seen.age <= TtlSeconds
        /\ last.seen.value = Dumps(last.out.value)
        /\ \E q \in Queries :
             /\ Key(q) = last.key
             /\ \E r \in RepoOutcomes(q) : r.out = last.out

\* departures were answered from an entry in the last second of its life
C28_Witness ==
    /\ HitOfOwnStore
    /\ last.seen.age = TtlSeconds - 1
    /\ Len(last.out.value.v) > 0

\* the step completes a request through the decorator whose call of the
\* wrapped repository raised
CompletesFailed ==
    /\ IsCached
    /\ last'.id # last.id
    /\ last'.repoCalls = 1 /\ last'.repoOut.kind = "raise"

\* the step begins a request with the parameters of the most recent completed
\* one, which had seen a miss of the working store, found the wrapped
\* repository raising and had no other request beside it
RepeatsFailed ==
    /\ IsRedis
    /\ started' = started + 1
    /\ Done /\ last.repoCalls = 1 /\ last.repoOut.kind = "raise"
    /\ last.getUp /\ last.alone
    /\ Begun.q = last.q /\ Begun.getUp

\* C29: when the wrapped repository raises during a cache-miss call the
\* decorator performs no cache.set: the cache is left as it was, neither a
\* failure nor a placeholder is cached, and the next identical call asks the
\* wrapped repository again.
C29_FailureNotCached ==
    [][/\ CompletesFailed =>
            /\ redis' = redis
            /\ last'.out = last'.repoOut
            /\ last'.alone => redis'[last'.key] = last'.seen
       /\ RepeatsFailed =>
            /\ Begun.pc = "repo"
            /\ Begun.seen = [last.seen EXCEPT !.age = Begun.seen.age]]_vars

\* a request that follows one the wrapped repository failed, with the same
\* parameters, is asking the wrapped repository
C29_Witness ==
    /\ IsRedis /\ Done
    /\ last.repoCalls = 1 /\ last.repoOut.kind = "raise"
    /\ last.getUp /\ last.alone
    /\ ~redis[last.key].present
    /\ \E w \in Workers :
         /\ call[w].pc = "repo"
         /\ call[w].id = last.id + 1
         /\ call[w].q = last.q
         /\ call[w].got = Return(None)

\* the step begins a request that is answered from the cache
HitStep ==
    /\ IsRedis
    /\ started' = started + 1
    /\ Begun.pc = "done" /\ Begun.repoCalls = 0 /\ Begun.out.kind = "return"

\* the entry but for the count of the requests answered from it
Content(e) == [e EXCEPT !.hits = 0]

\* an entry the decorator wrote has lived `age` of its ttl_seconds and is gone
\* after them, whatever the number of hits
LifetimeFixed ==
    \A k \in DOMAIN redis :
        redis[k].by = "decorator" =>
            IF redis[k].present THEN redis[k].age + redis[k].ttl = TtlSeconds
            ELSE redis[k].age >= TtlSeconds

\* C30: a cache hit performs no cache.set: it changes neither the content nor
\* the remaining lifetime of the entry, so that an entry expires ttl_seconds
\* after it was written no matter how many hits it serves in between.
C30_HitLeavesEntryAlone ==
    [][/\ HitStep => \A k \in DOMAIN redis : Content(redis'[k]) = Content(redis[k])
       /\ IsRedis => LifetimeFixed']_vars

\* an entry of the decorator that had answered two requests is gone
\* ttl_seconds after it was written
C30_Witness ==
    /\ IsRedis
    /\ \E k \in DOMAIN redis :
         /\ redis[k].by = "decorator" /\ ~redis[k].present
         /\ redis[k].hits >= 2
         /\ redis[k].age = TtlSeconds

====
